---- MODULE Spec2Model ----
(***************************************************************************)
(* deepwiki-dl: the outline parser (parseWikiStructure), the filename      *)
(* sanitizer (replaceInvalidFilenameCharacters) and the content splitter   *)
(* (splitWikiContents) of src/src/index.ts.                                *)
(*                                                                         *)
(* A JavaScript string is modelled as the sequence of its UTF-16 code      *)
(* units (numbers): "# Page: " is <<35, 32, 80, 97, 103, 101, 58, 32>>.    *)
(* Positions into strings are 0-based, as in the source.                   *)
(***************************************************************************)
EXTENDS Integers, Sequences, FiniteSets

VARIABLES
    pc,             \* the position of the running function
    contents,       \* splitWikiContents: argument contents
    structure,      \* splitWikiContents: argument structure (sections, rawText)
    sectionIndex,   \* splitWikiContents: let sectionIndex
    currentPos,     \* splitWikiContents: let currentPos
    markerPos,      \* splitWikiContents: const markerPos of the last iteration
    contentStart,   \* splitWikiContents: const contentStart of the last iteration
    contentEnd,     \* splitWikiContents: let contentEnd of the last iteration
    files,          \* splitWikiContents: the Map files, in insertion order
    thrown,         \* splitWikiContents: the message of the Error thrown
    filename,       \* replaceInvalidFilenameCharacters: argument filename
    sanitized,      \* replaceInvalidFilenameCharacters: the value returned
    resanitized,    \* replaceInvalidFilenameCharacters applied to that value
    structureText,  \* parseWikiStructure: argument structureText
    lines,          \* parseWikiStructure: const lines
    lineIndex,      \* parseWikiStructure: the position of the for-of loop
    sections,       \* parseWikiStructure: const sections
    parsed,         \* parseWikiStructure: the value returned
    args,           \* cli: process.argv.slice(2)
    outputDir,      \* downloadWiki: const outputDir
    inFlight,       \* downloadWiki: the requests to the server awaited
    events,         \* the effects of the run so far, in order
    written,        \* the files written under outputDir in this run, in order
    writeIndex,     \* downloadWiki: the position of the loop over files.entries()
    dwError,        \* downloadWiki: what failed ("none": nothing)
    exitCode        \* cli: the exit status of the process (-1: still running)

vars == <<pc, contents, structure, sectionIndex, currentPos, markerPos,
          contentStart, contentEnd, files, thrown, filename, sanitized,
          resanitized, structureText, lines, lineIndex, sections, parsed,
          args, outputDir, inFlight, events, written, writeIndex, dwError,
          exitCode>>

splitVars == <<contents, structure, sectionIndex, currentPos, markerPos,
               contentStart, contentEnd, files, thrown>>

sanitizeVars == <<filename, sanitized, resanitized>>

parseVars == <<structureText, lines, lineIndex, sections, parsed>>

downloadVars == <<args, outputDir, inFlight, events, written, writeIndex,
                  dwError, exitCode>>

(***************************************************************************)
(* Bounds of the model.                                                    *)
(***************************************************************************)
\* the longest outline handed to splitWikiContents
MaxSections == 3

\* the most pieces (markers, text, line breaks) a content is made of
MaxPieces == 3

\* the longest name handed to replaceInvalidFilenameCharacters
MaxNameLen == 2

\* the longest outline text of a single line, enumerated character by character
MaxLineLen == 5

\* the most lines of an outline text made of the lines of LinePool
MaxLines == 3

\* the most content items in an answer of the server
MaxItems == 2

(***************************************************************************)
(* Strings.                                                                *)
(***************************************************************************)
\* the least element of a non-empty set of numbers
MinOf(S) == CHOOSE p \in S : \A q \in S : p <= q

\* the characters String.prototype.trim removes and the regex class \s matches
WhiteSpace ==
    {9, 10, 11, 12, 13, 32, 160, 5760, 8232, 8233, 8239, 8287, 12288, 65279}
        \cup (8192..8202)

\* s.indexOf(pat, from): the first 0-based position at or after from, or -1
IndexOf(s, pat, from) ==
    LET start == IF from < 0 THEN 0 ELSE IF from > Len(s) THEN Len(s) ELSE from
        found == {p \in start..(Len(s) - Len(pat)) :
                      SubSeq(s, p + 1, p + Len(pat)) = pat}
    IN  IF found = {} THEN -1 ELSE MinOf(found)

\* s.startsWith(pat)
StartsWith(s, pat) ==
    Len(pat) <= Len(s) /\ SubSeq(s, 1, Len(pat)) = pat

\* s.substring(a, b): the characters at the 0-based positions [a, b)
Substring(s, a, b) ==
    LET clamp(x) == IF x < 0 THEN 0 ELSE IF x > Len(s) THEN Len(s) ELSE x
        lo == IF clamp(a) <= clamp(b) THEN clamp(a) ELSE clamp(b)
        hi == IF clamp(a) <= clamp(b) THEN clamp(b) ELSE clamp(a)
    IN  SubSeq(s, lo + 1, hi)

RECURSIVE TrimStart(_)
TrimStart(s) ==
    IF s # <<>> /\ Head(s) \in WhiteSpace THEN TrimStart(Tail(s)) ELSE s

RECURSIVE TrimEnd(_)
TrimEnd(s) ==
    IF s # <<>> /\ s[Len(s)] \in WhiteSpace
    THEN TrimEnd(SubSeq(s, 1, Len(s) - 1))
    ELSE s

\* s.trim()
Trim(s) == TrimEnd(TrimStart(s))

(***************************************************************************)
(* replaceInvalidFilenameCharacters                                        *)
(***************************************************************************)
\* the class [<>:"/\\|?*\u0000-\u001F]
InvalidFilenameCharacters ==
    {60, 62, 58, 34, 47, 92, 124, 63, 42} \cup (0..31)

\* a bug: the control range ends one short, at U+001E
SanitizeShortRange(name) ==
    [i \in 1..Len(name) |->
        IF name[i] \in ({60, 62, 58, 34, 47, 92, 124, 63, 42} \cup (0..30))
        THEN 45 ELSE name[i]]

\* a bug: the g flag is missing, only the first match is replaced
SanitizeFirstOnly(name) ==
    LET hits == {i \in 1..Len(name) : name[i] \in InvalidFilenameCharacters}
    IN  [i \in 1..Len(name) |->
            IF hits # {} /\ i = MinOf(hits) THEN 45 ELSE name[i]]

\* filename.replace(/[...]/g, "-"): every match becomes "-" (45)
replaceInvalidFilenameCharacters(name) ==
    [i \in 1..Len(name) |->
        IF name[i] \in InvalidFilenameCharacters THEN 45 ELSE name[i]]

\* the first call
SanitizeCall ==
    /\ pc = "sanitize"
    /\ sanitized' = replaceInvalidFilenameCharacters(filename)
    /\ pc' = "sanitize_again"
    /\ UNCHANGED <<filename, resanitized>>
    /\ UNCHANGED <<splitVars, parseVars, downloadVars>>

\* a second call, on the value the first one returned
SanitizeAgain ==
    /\ pc = "sanitize_again"
    /\ resanitized' = replaceInvalidFilenameCharacters(sanitized)
    /\ pc' = "sanitize_done"
    /\ UNCHANGED <<filename, sanitized>>
    /\ UNCHANGED <<splitVars, parseVars, downloadVars>>

(***************************************************************************)
(* parseWikiStructure                                                      *)
(***************************************************************************)
\* the characters the regex "." does not match
LineTerminators == {10, 13, 8232, 8233}

\* the class [\d.]
DigitOrDot == (48..57) \cup {46}

\* structureText.split("\n")
RECURSIVE SplitLines(_)
SplitLines(s) ==
    LET breaks == {k \in 1..Len(s) : s[k] = 10}
    IN  IF breaks = {} THEN <<s>>
        ELSE <<SubSeq(s, 1, MinOf(breaks) - 1)>>
                 \o SplitLines(SubSeq(s, MinOf(breaks) + 1, Len(s)))

\* every way /^\s*-\s+([\d.]+)\s+(.+)$/ matches the line: <<a, b, c, d>> are
\* the numbers of characters consumed once \s*, the first \s+, ([\d.]+) and
\* the second \s+ have matched; (.+) takes the rest, to the end of the line
RegexMatches(line) ==
    LET n == Len(line)
        all(lo, hi, S) == \A k \in lo..hi : line[k] \in S
        As == {a \in 0..(n - 1) :
                  all(1, a, WhiteSpace) /\ line[a + 1] = 45}
        Bs(a) == {b \in (a + 2)..n : all(a + 2, b, WhiteSpace)}
        Cs(b) == {c \in (b + 1)..n : all(b + 1, c, DigitOrDot)}
        Ds(c) == {d \in (c + 1)..(n - 1) :
                     /\ all(c + 1, d, WhiteSpace)
                     /\ \A k \in (d + 1)..n : line[k] \notin LineTerminators}
    IN  UNION {UNION {UNION {{<<a, b, c, d>> : d \in Ds(c)} : c \in Cs(b)}
                          : b \in Bs(a)} : a \in As}

\* the match a backtracking engine reports: every quantifier is greedy, so of
\* all the ways the leftmost quantifiers take as much as they can
GreedyMatch(ms) ==
    CHOOSE m \in ms : \A o \in ms :
        \/ m[1] > o[1]
        \/ m[1] = o[1] /\ m[2] > o[2]
        \/ m[1] = o[1] /\ m[2] = o[2] /\ m[3] > o[3]
        \/ m[1] = o[1] /\ m[2] = o[2] /\ m[3] = o[3] /\ m[4] >= o[4]

\* line.match(...): the two groups, or no match
LineMatch(line) ==
    LET ms == RegexMatches(line)
    IN  IF ms = {} THEN [matched |-> FALSE, number |-> <<>>, rest |-> <<>>]
        ELSE LET m == GreedyMatch(ms)
             IN  [matched |-> TRUE,
                  number |-> SubSeq(line, m[2] + 1, m[3]),
                  rest |-> SubSeq(line, m[4] + 1, Len(line))]

\* a bug: the title is not trimmed
SectionUntrimmed(m) ==
    [number |-> m.number, title |-> m.rest,
     fullTitle |-> m.number \o <<32>> \o m.rest]

\* the object pushed for a match
SectionOfMatch(m) ==
    [number |-> m.number, title |-> Trim(m.rest),
     fullTitle |-> m.number \o <<32>> \o Trim(m.rest)]

\* const sections = []; const lines = structureText.split("\n")
ParseEnter ==
    /\ pc = "parse"
    /\ sections' = <<>>
    /\ lines' = SplitLines(structureText)
    /\ lineIndex' = 0
    /\ pc' = "parse_loop"
    /\ UNCHANGED <<structureText, parsed>>
    /\ UNCHANGED <<splitVars, sanitizeVars, downloadVars>>

\* one iteration of for (const line of lines)
ParseLine ==
    /\ pc = "parse_loop"
    /\ lineIndex < Len(lines)
    /\ LET m == LineMatch(lines[lineIndex + 1])
       IN  sections' = IF m.matched THEN Append(sections, SectionOfMatch(m))
                       ELSE sections
    /\ lineIndex' = lineIndex + 1
    /\ UNCHANGED <<pc, structureText, lines, parsed>>
    /\ UNCHANGED <<splitVars, sanitizeVars, downloadVars>>

\* return { sections, rawText: structureText }
ParseReturn ==
    /\ pc = "parse_loop"
    /\ lineIndex >= Len(lines)
    /\ parsed' = [sections |-> sections, rawText |-> structureText]
    /\ pc' = "parse_returned"
    /\ UNCHANGED <<structureText, lines, lineIndex, sections>>
    /\ UNCHANGED <<splitVars, sanitizeVars, downloadVars>>

(***************************************************************************)
(* splitWikiContents                                                       *)
(***************************************************************************)
\* the literal "# Page: "
PagePrefix == <<35, 32, 80, 97, 103, 101, 58, 32>>

\* `# Page: ${section.title}`
Marker(title) == PagePrefix \o title

\* "Invalid content format\n"
InvalidContentPrefix ==
    <<73, 110, 118, 97, 108, 105, 100, 32, 99, 111, 110, 116, 101, 110, 116,
      32, 102, 111, 114, 109, 97, 116, 10>>

\* "Invalid structure format\n"
InvalidStructurePrefix ==
    <<73, 110, 118, 97, 108, 105, 100, 32, 115, 116, 114, 117, 99, 116, 117,
      114, 101, 32, 102, 111, 114, 109, 97, 116, 10>>

\* files.set(name, text): a present key keeps its place and takes the new text
MapSet(m, name, text) ==
    IF \E k \in 1..Len(m) : m[k].name = name
    THEN [k \in 1..Len(m) |->
             IF m[k].name = name THEN [name |-> name, text |-> text] ELSE m[k]]
    ELSE Append(m, [name |-> name, text |-> text])

\* the for loop over nextIdx: the first later section, in outline order, whose
\* marker occurs at or after start gives the end; none gives contents.length
RECURSIVE NextMarkerScan(_, _, _, _)
NextMarkerScan(text, secs, nextIdx, start) ==
    IF nextIdx >= Len(secs) THEN Len(text)
    ELSE LET nextPos == IndexOf(text, Marker(secs[nextIdx + 1].title), start)
         IN  IF nextPos # -1 THEN nextPos
             ELSE NextMarkerScan(text, secs, nextIdx + 1, start)

\* a bug (and the reading "textually nearest"): the least position of any
\* later section's marker
NearestMarkerEnd(text, secs, idx, start) ==
    LET hits == {IndexOf(text, Marker(secs[j + 1].title), start) :
                     j \in (idx + 1)..(Len(secs) - 1)} \ {-1}
    IN  IF hits = {} THEN Len(text) ELSE MinOf(hits)

\* a bug: the position argument of indexOf is left out, the search for the
\* next marker starts at the beginning of the content
ContentEndFromBeginning(text, secs, idx, start) ==
    NextMarkerScan(text, secs, idx + 1, 0)

\* let contentEnd, after the for loop
FindContentEnd(text, secs, idx, start) ==
    NextMarkerScan(text, secs, idx + 1, start)

\* a bug: the page content is not trimmed
PageContentUntrimmed(text, start, end) == Substring(text, start, end)

\* contents.substring(contentStart, contentEnd).trim()
PageContent(text, start, end) == Trim(Substring(text, start, end))

\* replaceInvalidFilenameCharacters(`${section.number} ${section.title}.md`)
FileName(section) ==
    replaceInvalidFilenameCharacters(
        section.number \o <<32>> \o section.title \o <<46, 109, 100>>)

\* `# ${section.fullTitle}\n\n${pageContent}`
FileText(section, pageContent) ==
    <<35, 32>> \o section.fullTitle \o <<10, 10>> \o pageContent

\* the checks before the loop, in the order of the source
\* a bug: whitespace-only content is not recognised as empty
EnterNoTrim ==
    /\ pc = "split"
    /\ IF contents = <<>>
       THEN pc' = "split_returned" /\ thrown' = thrown
       ELSE IF ~StartsWith(contents, PagePrefix)
       THEN pc' = "split_thrown"
            /\ thrown' = InvalidContentPrefix \o Trim(contents)
       ELSE IF Len(structure.sections) = 0
       THEN pc' = "split_thrown"
            /\ thrown' = InvalidStructurePrefix \o Trim(contents)
       ELSE pc' = "split_loop" /\ thrown' = thrown
    /\ UNCHANGED <<contents, structure, sectionIndex, currentPos, markerPos,
                   contentStart, contentEnd, files>>
    /\ UNCHANGED <<sanitizeVars, parseVars, downloadVars>>

\* a bug: the structure is checked before the content
EnterStructureFirst ==
    /\ pc = "split"
    /\ IF contents = <<>> \/ Trim(contents) = <<>>
       THEN pc' = "split_returned" /\ thrown' = thrown
       ELSE IF Len(structure.sections) = 0
       THEN pc' = "split_thrown"
            /\ thrown' = InvalidStructurePrefix \o Trim(contents)
       ELSE IF ~StartsWith(contents, PagePrefix)
       THEN pc' = "split_thrown"
            /\ thrown' = InvalidContentPrefix \o Trim(contents)
       ELSE pc' = "split_loop" /\ thrown' = thrown
    /\ UNCHANGED <<contents, structure, sectionIndex, currentPos, markerPos,
                   contentStart, contentEnd, files>>
    /\ UNCHANGED <<sanitizeVars, parseVars, downloadVars>>

SplitEnter ==
    /\ pc = "split"
    /\ IF contents = <<>> \/ Trim(contents) = <<>>
       THEN pc' = "split_returned" /\ thrown' = thrown
       ELSE IF ~StartsWith(contents, PagePrefix)
       THEN pc' = "split_thrown"
            /\ thrown' = InvalidContentPrefix \o Trim(contents)
       ELSE IF Len(structure.sections) = 0
       THEN pc' = "split_thrown"
            /\ thrown' = InvalidStructurePrefix \o Trim(contents)
       ELSE pc' = "split_loop" /\ thrown' = thrown
    /\ UNCHANGED <<contents, structure, sectionIndex, currentPos, markerPos,
                   contentStart, contentEnd, files>>
    /\ UNCHANGED <<sanitizeVars, parseVars, downloadVars>>

\* a bug: a section whose marker is not found is skipped, the scan goes on
IterateSkipMissing ==
    /\ pc = "split_loop"
    /\ currentPos < Len(contents)
    /\ sectionIndex < Len(structure.sections)
    /\ LET section == structure.sections[sectionIndex + 1]
           found == IndexOf(contents, Marker(section.title), currentPos)
           start == found + Len(Marker(section.title))
           end == FindContentEnd(contents, structure.sections, sectionIndex, start)
       IN  /\ markerPos' = found
           /\ IF found = -1
              THEN /\ sectionIndex' = sectionIndex + 1
                   /\ pc' = pc
                   /\ UNCHANGED <<contentStart, contentEnd, files, currentPos>>
              ELSE /\ contentStart' = start
                   /\ contentEnd' = end
                   /\ files' = MapSet(files, FileName(section),
                          FileText(section, PageContent(contents, start, end)))
                   /\ currentPos' = end
                   /\ sectionIndex' = sectionIndex + 1
                   /\ pc' = pc
    /\ UNCHANGED <<contents, structure, thrown>>
    /\ UNCHANGED <<sanitizeVars, parseVars, downloadVars>>

\* one iteration of the while loop, or the break out of it
SplitIterate ==
    /\ pc = "split_loop"
    /\ currentPos < Len(contents)
    /\ sectionIndex < Len(structure.sections)
    /\ LET section == structure.sections[sectionIndex + 1]
           found == IndexOf(contents, Marker(section.title), currentPos)
           start == found + Len(Marker(section.title))
           end == FindContentEnd(contents, structure.sections, sectionIndex, start)
       IN  /\ markerPos' = found
           /\ IF found = -1
              THEN /\ pc' = "split_returned"
                   /\ UNCHANGED <<contentStart, contentEnd, files, currentPos,
                                  sectionIndex>>
              ELSE /\ contentStart' = start
                   /\ contentEnd' = end
                   /\ files' = MapSet(files, FileName(section),
                          FileText(section, PageContent(contents, start, end)))
                   /\ currentPos' = end
                   /\ sectionIndex' = sectionIndex + 1
                   /\ pc' = pc
    /\ UNCHANGED <<contents, structure, thrown>>
    /\ UNCHANGED <<sanitizeVars, parseVars, downloadVars>>

\* the while condition is false: return files
SplitReturn ==
    /\ pc = "split_loop"
    /\ ~(currentPos < Len(contents) /\ sectionIndex < Len(structure.sections))
    /\ pc' = "split_returned"
    /\ UNCHANGED splitVars
    /\ UNCHANGED <<sanitizeVars, parseVars, downloadVars>>

(***************************************************************************)
(* The inputs of splitWikiContents.                                        *)
(***************************************************************************)
\* a section as parseWikiStructure builds it
MkSection(number, title) ==
    [number |-> number, title |-> title,
     fullTitle |-> number \o <<32>> \o title]

\* the sections "1 A", "1.1 B" and "2 C:"
SectionPool ==
    {MkSection(<<49>>, <<65>>), MkSection(<<49, 46, 49>>, <<66>>),
     MkSection(<<50>>, <<67, 58>>)}

\* the pieces "# Page: A", "# Page: B", "# Page: C:", "B" and a line break
PiecePool ==
    {Marker(<<65>>), Marker(<<66>>), Marker(<<67, 58>>), <<66>>, <<10>>}

RECURSIVE Concat(_)
Concat(ps) == IF ps = <<>> THEN <<>> ELSE Head(ps) \o Concat(Tail(ps))

SeqsUpTo(S, n) == UNION {[1..k -> S] : k \in 0..n}

ContentInputs == {Concat(ps) : ps \in SeqsUpTo(PiecePool, MaxPieces)}

OutlineInputs == SeqsUpTo(SectionPool, MaxSections)

IdleSanitize == filename = <<>> /\ sanitized = <<>> /\ resanitized = <<>>

IdleParse ==
    /\ structureText = <<>>
    /\ lines = <<>>
    /\ lineIndex = 0
    /\ sections = <<>>
    /\ parsed = [sections |-> <<>>, rawText |-> <<>>]

IdleDownload ==
    /\ args = <<>>
    /\ outputDir = <<>>
    /\ inFlight = {}
    /\ events = <<>>
    /\ written = <<>>
    /\ writeIndex = 0
    /\ dwError = "none"
    /\ exitCode = -1

IdleSplit ==
    /\ contents = <<>>
    /\ structure = [sections |-> <<>>, rawText |-> <<>>]
    /\ sectionIndex = 0
    /\ currentPos = 0
    /\ markerPos = -1
    /\ contentStart = -1
    /\ contentEnd = -1
    /\ files = <<>>
    /\ thrown = <<>>

Init ==
    /\ pc = "split"
    /\ contents \in ContentInputs
    /\ \E secs \in OutlineInputs :
           structure = [sections |-> secs, rawText |-> <<>>]
    /\ sectionIndex = 0
    /\ currentPos = 0
    /\ markerPos = -1
    /\ contentStart = -1
    /\ contentEnd = -1
    /\ files = <<>>
    /\ thrown = <<>>
    /\ IdleSanitize
    /\ IdleParse
    /\ IdleDownload

Next == SplitEnter \/ SplitIterate \/ SplitReturn

Spec == Init /\ [][Next]_vars

(***************************************************************************)
(* The inputs of replaceInvalidFilenameCharacters.                         *)
(***************************************************************************)
\* < > : " / \ | ? *, U+0000, U+001F, space, "-", "a" and U+00E9
NameAlphabet ==
    {60, 62, 58, 34, 47, 92, 124, 63, 42, 0, 31, 32, 45, 97, 233}

InitSanitize ==
    /\ pc = "sanitize"
    /\ filename \in SeqsUpTo(NameAlphabet, MaxNameLen)
    /\ sanitized = <<>>
    /\ resanitized = <<>>
    /\ IdleSplit
    /\ IdleParse
    /\ IdleDownload

NextSanitize == SanitizeCall \/ SanitizeAgain

SpecSanitize == InitSanitize /\ [][NextSanitize]_vars

(***************************************************************************)
(* The inputs of parseWikiStructure.                                       *)
(***************************************************************************)
\* space, "-", ".", "1" and "a"
LineAlphabet == {32, 45, 46, 49, 97}

\* "- 1 a", "  - 1.1 b c ", "a", "", "- 2<TAB>b", "- 1 a<CR>", "- 1..2 a", "- 1  "
LinePool ==
    {<<45, 32, 49, 32, 97>>,
     <<32, 32, 45, 32, 49, 46, 49, 32, 98, 32, 99, 32>>,
     <<97>>,
     <<>>,
     <<45, 32, 50, 9, 98>>,
     <<45, 32, 49, 32, 97, 13>>,
     <<45, 32, 49, 46, 46, 50, 32, 97>>,
     <<45, 32, 49, 32, 32>>}

\* the lines joined by line breaks
RECURSIVE JoinLines(_)
JoinLines(ls) ==
    IF ls = <<>> THEN <<>>
    ELSE IF Len(ls) = 1 THEN ls[1]
    ELSE ls[1] \o <<10>> \o JoinLines(Tail(ls))

OutlineTextInputs ==
    SeqsUpTo(LineAlphabet, MaxLineLen)
        \cup {JoinLines(ls) : ls \in SeqsUpTo(LinePool, MaxLines)}

InitParse ==
    /\ pc = "parse"
    /\ structureText \in OutlineTextInputs
    /\ lines = <<>>
    /\ lineIndex = 0
    /\ sections = <<>>
    /\ parsed = [sections |-> <<>>, rawText |-> <<>>]
    /\ IdleSplit
    /\ IdleSanitize
    /\ IdleDownload

NextParse == ParseEnter \/ ParseLine \/ ParseReturn

SpecParse == InitParse /\ [][NextParse]_vars

(***************************************************************************)
(* The inputs of the command line and the answers of the server.           *)
(***************************************************************************)
\* no argument, "--help", "-h", "o/r", "r", "o/r d" and "o/r --help"
ArgInputs ==
    {<<>>,
     <<<<45, 45, 104, 101, 108, 112>>>>,
     <<<<45, 104>>>>,
     <<<<111, 47, 114>>>>,
     <<<<114>>>>,
     <<<<111, 47, 114>>, <<100>>>>,
     <<<<111, 47, 114>>, <<45, 45, 104, 101, 108, 112>>>>}

TextItem(t) == [type |-> "text", hasText |-> TRUE, text |-> t]

\* the items "- 1 A", "- . B", "E" and an item that is no text
StructureItemPool ==
    {TextItem(<<45, 32, 49, 32, 65>>), TextItem(<<45, 32, 46, 32, 66>>),
     TextItem(<<69>>), [type |-> "image", hasText |-> FALSE, text |-> <<>>]}

\* the items "# Page: A", "# Page: B", "E" and a text item without text
ContentItemPool ==
    {TextItem(Marker(<<65>>)), TextItem(Marker(<<66>>)),
     TextItem(<<69>>), [type |-> "text", hasText |-> FALSE, text |-> <<>>]}

StructureResponses == SeqsUpTo(StructureItemPool, MaxItems)

ContentResponses == SeqsUpTo(ContentItemPool, MaxItems)

(***************************************************************************)
(* The two whole functions, as downloadWiki calls them.                    *)
(***************************************************************************)
\* the for loop of parseWikiStructure over all the lines
RECURSIVE ParseLines(_)
ParseLines(ls) ==
    IF ls = <<>> THEN <<>>
    ELSE LET m == LineMatch(Head(ls))
         IN  (IF m.matched THEN <<SectionOfMatch(m)>> ELSE <<>>)
                 \o ParseLines(Tail(ls))

\* parseWikiStructure(structureText)
parseWikiStructure(text) ==
    [sections |-> ParseLines(SplitLines(text)), rawText |-> text]

\* the while loop of splitWikiContents, run to its end
RECURSIVE SplitLoop(_, _, _, _, _)
SplitLoop(text, secs, idx, pos, m) ==
    IF ~(pos < Len(text) /\ idx < Len(secs)) THEN m
    ELSE LET section == secs[idx + 1]
             found == IndexOf(text, Marker(section.title), pos)
             start == found + Len(Marker(section.title))
             end == FindContentEnd(text, secs, idx, start)
         IN  IF found = -1 THEN m
             ELSE SplitLoop(text, secs, idx + 1, end,
                      MapSet(m, FileName(section),
                          FileText(section, PageContent(text, start, end))))

\* splitWikiContents(contents, structure): the Map returned, or the message
\* of the Error thrown
splitWikiContents(text, struct) ==
    IF text = <<>> \/ Trim(text) = <<>>
    THEN [thrown |-> <<>>, files |-> <<>>]
    ELSE IF ~StartsWith(text, PagePrefix)
    THEN [thrown |-> InvalidContentPrefix \o Trim(text), files |-> <<>>]
    ELSE IF Len(struct.sections) = 0
    THEN [thrown |-> InvalidStructurePrefix \o Trim(text), files |-> <<>>]
    ELSE [thrown |-> <<>>, files |-> SplitLoop(text, struct.sections, 0, 0, <<>>)]

(***************************************************************************)
(* downloadWiki and the command line (src/src/cli.ts).                     *)
(***************************************************************************)
scanAndIdleVars ==
    <<sectionIndex, currentPos, markerPos, contentStart, contentEnd,
      sanitizeVars, lines, lineIndex, sections, parsed>>

\* "--help" and "-h"
HelpFlags == {<<45, 45, 104, 101, 108, 112>>, <<45, 104>>}

\* "_wiki_structure.md"
StructureFileName ==
    <<95, 119, 105, 107, 105, 95, 115, 116, 114, 117, 99, 116, 117, 114, 101,
      46, 109, 100>>

\* repoName.split("/").at(-1): what follows the last "/"
LastSegment(name) ==
    LET slashes == {k \in 1..Len(name) : name[k] = 47}
        last == IF slashes = {} THEN 0
                ELSE CHOOSE k \in slashes : \A o \in slashes : o <= k
    IN  SubSeq(name, last + 1, Len(name))

\* outDir ?? `${repoName.split("/").at(-1) ?? "unknown"}-deepwiki`
OutputDirOf(argv) ==
    IF Len(argv) >= 2 THEN argv[2]
    ELSE LastSegment(argv[1]) \o <<45, 100, 101, 101, 112, 119, 105, 107, 105>>

\* content.filter((c) => c.type === "text").map((c) => c.text ?? "")
RECURSIVE TextsOf(_)
TextsOf(items) ==
    IF items = <<>> THEN <<>>
    ELSE (IF Head(items).type = "text"
          THEN <<IF Head(items).hasText THEN Head(items).text ELSE <<>>>>
          ELSE <<>>) \o TextsOf(Tail(items))

\* the lines joined by line breaks: Array.prototype.join("\n")
RECURSIVE JoinWithLineBreaks(_)
JoinWithLineBreaks(ts) ==
    IF ts = <<>> THEN <<>>
    ELSE IF Len(ts) = 1 THEN ts[1]
    ELSE ts[1] \o <<10>> \o JoinWithLineBreaks(Tail(ts))

\* (...).join("\n") || ""
ExtractText(items) == JoinWithLineBreaks(TextsOf(items))

\* cli.ts: the usage branch, or the call of downloadWiki
CliMain ==
    /\ pc = "cli"
    /\ IF Len(args) = 0 \/ args[1] \in HelpFlags
       THEN /\ events' = Append(events, "usage")
            /\ exitCode' = IF Len(args) > 0 /\ args[1] \in HelpFlags THEN 0 ELSE 1
            /\ pc' = "exited"
            /\ UNCHANGED outputDir
       ELSE /\ outputDir' = OutputDirOf(args)
            /\ pc' = "dw_mkdir"
            /\ UNCHANGED <<events, exitCode>>
    /\ UNCHANGED <<args, inFlight, written, writeIndex, dwError, structureText, structure, contents, files, thrown>>
    /\ UNCHANGED scanAndIdleVars

\* fs.existsSync / fs.mkdirSync, before the try block
DwMkdir ==
    /\ pc = "dw_mkdir"
    /\ \E ok \in BOOLEAN :
           IF ok THEN pc' = "dw_connect" /\ dwError' = dwError
           ELSE pc' = "dw_rejected" /\ dwError' = "mkdir"
    /\ UNCHANGED <<args, outputDir, inFlight, events, written, writeIndex, exitCode, structureText, structure, contents, files, thrown>>
    /\ UNCHANGED scanAndIdleVars

\* client.connect(transport) is called
DwConnect ==
    /\ pc = "dw_connect"
    /\ events' = Append(events, "connect")
    /\ inFlight' = inFlight \cup {"connect"}
    /\ pc' = "dw_connecting"
    /\ UNCHANGED <<args, outputDir, written, writeIndex, dwError, exitCode, structureText, structure, contents, files, thrown>>
    /\ UNCHANGED scanAndIdleVars

\* await client.connect(transport) settles
DwConnectSettled ==
    /\ pc = "dw_connecting"
    /\ inFlight' = inFlight \ {"connect"}
    /\ \E ok \in BOOLEAN :
           IF ok THEN pc' = "dw_call_structure" /\ dwError' = dwError
           ELSE pc' = "dw_finally" /\ dwError' = "connect"
    /\ UNCHANGED <<args, outputDir, events, written, writeIndex, exitCode, structureText, structure, contents, files, thrown>>
    /\ UNCHANGED scanAndIdleVars

\* a bug: both tools are called at once
CallBothTools ==
    /\ pc = "dw_call_structure"
    /\ events' = events \o <<"call:read_wiki_structure", "call:read_wiki_contents">>
    /\ inFlight' = inFlight \cup {"read_wiki_structure", "read_wiki_contents"}
    /\ pc' = "dw_await_structure"
    /\ UNCHANGED <<args, outputDir, written, writeIndex, dwError, exitCode, structureText, structure, contents, files, thrown>>
    /\ UNCHANGED scanAndIdleVars

\* client.callTool({ name: "read_wiki_structure", ... }) is called
DwCallStructure ==
    /\ pc = "dw_call_structure"
    /\ events' = Append(events, "call:read_wiki_structure")
    /\ inFlight' = inFlight \cup {"read_wiki_structure"}
    /\ pc' = "dw_await_structure"
    /\ UNCHANGED <<args, outputDir, written, writeIndex, dwError, exitCode, structureText, structure, contents, files, thrown>>
    /\ UNCHANGED scanAndIdleVars

\* the call settles: the text of the result is extracted, or the call fails
DwStructureSettled ==
    /\ pc = "dw_await_structure"
    /\ inFlight' = inFlight \ {"read_wiki_structure"}
    /\ \/ \E items \in StructureResponses :
              /\ structureText' = ExtractText(items)
              /\ events' = Append(events, "result:read_wiki_structure")
              /\ pc' = "dw_dump"
              /\ UNCHANGED dwError
       \/ /\ dwError' = "read_wiki_structure"
          /\ events' = Append(events, "reject:read_wiki_structure")
          /\ pc' = "dw_finally"
          /\ UNCHANGED structureText
    /\ UNCHANGED <<args, outputDir, written, writeIndex, exitCode, structure, contents, files, thrown>>
    /\ UNCHANGED scanAndIdleVars

\* a bug: the outline dump is not written
DumpNotWritten ==
    /\ pc = "dw_dump"
    /\ pc' = "dw_parse"
    /\ UNCHANGED <<args, outputDir, inFlight, events, written, writeIndex, dwError, exitCode, structureText, structure, contents, files, thrown>>
    /\ UNCHANGED scanAndIdleVars

\* fs.writeFileSync(structureFile, structureText, "utf-8")
DwDump ==
    /\ pc = "dw_dump"
    /\ \E ok \in BOOLEAN :
           IF ok
           THEN /\ written' = Append(written, [name |-> StructureFileName,
                                               text |-> structureText])
                /\ events' = Append(events, "write:structure")
                /\ pc' = "dw_parse"
                /\ UNCHANGED dwError
           ELSE /\ dwError' = "write:structure"
                /\ pc' = "dw_finally"
                /\ UNCHANGED <<written, events>>
    /\ UNCHANGED <<args, outputDir, inFlight, writeIndex, exitCode, structureText, structure, contents, files, thrown>>
    /\ UNCHANGED scanAndIdleVars

\* const structure = parseWikiStructure(structureText)
DwParse ==
    /\ pc = "dw_parse"
    /\ structure' = parseWikiStructure(structureText)
    /\ events' = Append(events, "parse")
    /\ pc' = "dw_call_contents"
    /\ UNCHANGED <<args, outputDir, inFlight, written, writeIndex, dwError, exitCode, structureText, contents, files, thrown>>
    /\ UNCHANGED scanAndIdleVars

\* client.callTool({ name: "read_wiki_contents", ... }) is called
DwCallContents ==
    /\ pc = "dw_call_contents"
    /\ events' = Append(events, "call:read_wiki_contents")
    /\ inFlight' = inFlight \cup {"read_wiki_contents"}
    /\ pc' = "dw_await_contents"
    /\ UNCHANGED <<args, outputDir, written, writeIndex, dwError, exitCode, structureText, structure, contents, files, thrown>>
    /\ UNCHANGED scanAndIdleVars

\* the call settles: the text of the result is extracted, or the call fails
DwContentsSettled ==
    /\ pc = "dw_await_contents"
    /\ inFlight' = inFlight \ {"read_wiki_contents"}
    /\ \/ \E items \in ContentResponses :
              /\ contents' = ExtractText(items)
              /\ events' = Append(events, "result:read_wiki_contents")
              /\ pc' = "dw_split"
              /\ UNCHANGED dwError
       \/ /\ dwError' = "read_wiki_contents"
          /\ events' = Append(events, "reject:read_wiki_contents")
          /\ pc' = "dw_finally"
          /\ UNCHANGED contents
    /\ UNCHANGED <<args, outputDir, written, writeIndex, exitCode, structureText, structure, files, thrown>>
    /\ UNCHANGED scanAndIdleVars

\* const files = splitWikiContents(contentsText, structure)
DwSplit ==
    /\ pc = "dw_split"
    /\ LET r == splitWikiContents(contents, structure)
       IN  IF r.thrown # <<>>
           THEN /\ thrown' = r.thrown
                /\ dwError' = "split"
                /\ events' = Append(events, "throw:split")
                /\ pc' = "dw_finally"
                /\ UNCHANGED <<files, writeIndex>>
           ELSE /\ files' = r.files
                /\ writeIndex' = 0
                /\ events' = Append(events, "split")
                /\ pc' = "dw_write"
                /\ UNCHANGED <<thrown, dwError>>
    /\ UNCHANGED <<args, outputDir, inFlight, written, exitCode, structureText, structure, contents>>
    /\ UNCHANGED scanAndIdleVars

\* one iteration of for (const [filename, content] of files.entries())
DwWriteFile ==
    /\ pc = "dw_write"
    /\ writeIndex < Len(files)
    /\ \E ok \in BOOLEAN :
           IF ok
           THEN /\ written' = Append(written, files[writeIndex + 1])
                /\ events' = Append(events, "write:section")
                /\ writeIndex' = writeIndex + 1
                /\ UNCHANGED <<pc, dwError>>
           ELSE /\ dwError' = "write:section"
                /\ pc' = "dw_finally"
                /\ UNCHANGED <<written, events, writeIndex>>
    /\ UNCHANGED <<args, outputDir, inFlight, exitCode, structureText, structure, contents, files, thrown>>
    /\ UNCHANGED scanAndIdleVars

\* the loop over the files is over: the try block ends
DwWritten ==
    /\ pc = "dw_write"
    /\ writeIndex >= Len(files)
    /\ pc' = "dw_finally"
    /\ UNCHANGED <<args, outputDir, inFlight, events, written, writeIndex, dwError, exitCode, structureText, structure, contents, files, thrown>>
    /\ UNCHANGED scanAndIdleVars

\* a bug: the client is closed after the try block, not in a finally block
CloseOnlyOnSuccess ==
    /\ pc = "dw_finally"
    /\ IF dwError = "none"
       THEN /\ events' = Append(events, "close")
            /\ \E ok \in BOOLEAN :
                   IF ok THEN pc' = "dw_resolved" /\ dwError' = dwError
                   ELSE pc' = "dw_rejected" /\ dwError' = "close"
       ELSE pc' = "dw_rejected" /\ UNCHANGED <<events, dwError>>
    /\ UNCHANGED <<args, outputDir, inFlight, written, writeIndex, exitCode, structureText, structure, contents, files, thrown>>
    /\ UNCHANGED scanAndIdleVars

\* finally { await client.close() }: the pending error, if any, is thrown on
\* after the close; a failing close throws its own error
DwClose ==
    /\ pc = "dw_finally"
    /\ events' = Append(events, "close")
    /\ \E ok \in BOOLEAN :
           IF ok
           THEN /\ pc' = IF dwError = "none" THEN "dw_resolved" ELSE "dw_rejected"
                /\ dwError' = dwError
           ELSE pc' = "dw_rejected" /\ dwError' = "close"
    /\ UNCHANGED <<args, outputDir, inFlight, written, writeIndex, exitCode, structureText, structure, contents, files, thrown>>
    /\ UNCHANGED scanAndIdleVars

\* cli.ts: console.log("Download complete!"), the process ends
CliComplete ==
    /\ pc = "dw_resolved"
    /\ events' = Append(events, "complete")
    /\ exitCode' = 0
    /\ pc' = "exited"
    /\ UNCHANGED <<args, outputDir, inFlight, written, writeIndex, dwError, structureText, structure, contents, files, thrown>>
    /\ UNCHANGED scanAndIdleVars

\* cli.ts: catch (error) { console.error(...); process.exit(1) }
CliCatch ==
    /\ pc = "dw_rejected"
    /\ events' = Append(events, "error")
    /\ exitCode' = 1
    /\ pc' = "exited"
    /\ UNCHANGED <<args, outputDir, inFlight, written, writeIndex, dwError, structureText, structure, contents, files, thrown>>
    /\ UNCHANGED scanAndIdleVars

InitDownload ==
    /\ pc = "cli"
    /\ args \in ArgInputs
    /\ outputDir = <<>>
    /\ inFlight = {}
    /\ events = <<>>
    /\ written = <<>>
    /\ writeIndex = 0
    /\ dwError = "none"
    /\ exitCode = -1
    /\ IdleSplit
    /\ IdleSanitize
    /\ IdleParse

NextDownload ==
    \/ CliMain \/ DwMkdir \/ DwConnect \/ DwConnectSettled
    \/ DwCallStructure \/ DwStructureSettled \/ DwDump \/ DwParse
    \/ DwCallContents \/ DwContentsSettled \/ DwSplit
    \/ DwWriteFile \/ DwWritten \/ DwClose
    \/ CliComplete \/ CliCatch

SpecDownload == InitDownload /\ [][NextDownload]_vars

(***************************************************************************)
(* Vocabulary of the properties.                                           *)
(***************************************************************************)
\* pat stands in s at the 0-based position p
OccursAt(s, pat, p) ==
    /\ p >= 0
    /\ p + Len(pat) <= Len(s)
    /\ \A k \in 1..Len(pat) : s[p + k] = pat[k]

\* pat stands in s at some position at or after from
OccursFrom(s, pat, from) ==
    \E p \in from..Len(s) : OccursAt(s, pat, p)

\* every character of s is whitespace (the empty string included)
Blank(s) == \A k \in 1..Len(s) : s[k] \in WhiteSpace

\* t is what is left of the characters [a, b) of s once the whitespace at both
\* ends is removed
IsTrimOf(t, s, a, b) ==
    \E lo \in a..b : \E hi \in lo..b :
        /\ t = SubSeq(s, lo + 1, hi)
        /\ \A k \in (a + 1)..lo : s[k] \in WhiteSpace
        /\ \A k \in (hi + 1)..b : s[k] \in WhiteSpace
        /\ t # <<>> => (t[1] \notin WhiteSpace /\ t[Len(t)] \notin WhiteSpace)

\* the anchor of the section with the 0-based outline index j
Anchor(j) == PagePrefix \o structure.sections[j + 1].title

\* the 0-based index of the section matched last
LastMatched == sectionIndex - 1

\* the sections after the one matched last whose anchor stands at or after
\* its body start
LaterFound ==
    {j \in (LastMatched + 1)..(Len(structure.sections) - 1) :
        OccursFrom(contents, Anchor(j), contentStart)}

\* the positions at or after the body start where any later section's anchor stands
LaterAnchorPositions ==
    {p \in contentStart..Len(contents) :
        \E j \in (LastMatched + 1)..(Len(structure.sections) - 1) :
            OccursAt(contents, Anchor(j), p)}

\* the title a "# Page: " marker at position p carries: the rest of its line,
\* up to the next marker
MarkerTitleAt(p) ==
    LET from == p + Len(PagePrefix)
        stops == {q \in from..Len(contents) :
                     \/ q = Len(contents)
                     \/ contents[q + 1] = 10
                     \/ OccursAt(contents, PagePrefix, q)}
    IN  SubSeq(contents, from + 1, MinOf(stops))

OutlineTitles ==
    {structure.sections[k].title : k \in 1..Len(structure.sections)}

\* the positions of the markers whose title is no outline section's title
UnexpectedMarkers ==
    {p \in 0..Len(contents) :
        OccursAt(contents, PagePrefix, p) /\ MarkerTitleAt(p) \notin OutlineTitles}

\* t occurs somewhere in s
Contains(s, t) == \E p \in 0..Len(s) : OccursAt(s, t, p)

\* the keys of a map, in insertion order
Keys(m) == [k \in 1..Len(m) |-> m[k].name]

\* a sequence without the repetitions of its earlier elements
RECURSIVE FirstOccurrences(_)
FirstOccurrences(s) ==
    IF s = <<>> THEN <<>>
    ELSE LET front == FirstOccurrences(SubSeq(s, 1, Len(s) - 1))
         IN  IF \E k \in 1..Len(front) : front[k] = s[Len(s)]
             THEN front ELSE Append(front, s[Len(s)])

\* one of < > : " / \ | ? * or a control character U+0000 to U+001F
Forbidden(c) ==
    \/ c = 60 \/ c = 62 \/ c = 58 \/ c = 34 \/ c = 47
    \/ c = 92 \/ c = 124 \/ c = 63 \/ c = 42
    \/ (0 <= c /\ c <= 31)

\* the file names of the first n outline sections, in outline order
PrefixNames(n) ==
    [k \in 1..n |->
        LET sec == structure.sections[k]
            raw == sec.number \o <<32>> \o sec.title \o <<46, 109, 100>>
        IN  [i \in 1..Len(raw) |-> IF Forbidden(raw[i]) THEN 45 ELSE raw[i]]]

InLoop ==
    /\ pc = "split_loop"
    /\ currentPos < Len(contents)
    /\ sectionIndex < Len(structure.sections)

(***************************************************************************)
(* Properties of splitWikiContents.                                        *)
(***************************************************************************)
\* C1 (as stated): the body of every matched section ends at the least
\* position, at or after its body start, where the anchor of any later section
\* stands, and at the end of the content when there is none.
C1_EndsAtNearestAnchor ==
    sectionIndex >= 1 =>
        contentEnd = IF LaterAnchorPositions = {} THEN Len(contents)
                     ELSE MinOf(LaterAnchorPositions)

\* C1 (amended): the body of every matched section ends at the first
\* occurrence, at or after its body start, of the anchor of the later section
\* of lowest outline index whose anchor occurs there, and at the end of the
\* content when no later section's anchor occurs.
C1_EndsAtFirstOutlineAnchor ==
    sectionIndex >= 1 =>
        IF LaterFound = {} THEN contentEnd = Len(contents)
        ELSE LET j == MinOf(LaterFound)
             IN  /\ contentEnd >= contentStart
                 /\ OccursAt(contents, Anchor(j), contentEnd)
                 /\ \A p \in contentStart..(contentEnd - 1) :
                        ~OccursAt(contents, Anchor(j), p)

\* a body cut at the anchor of a later section although the anchor of another
\* later section stands before it
C1_Witness ==
    /\ sectionIndex >= 1
    /\ LaterAnchorPositions # {}
    /\ contentEnd > MinOf(LaterAnchorPositions)
    /\ contentEnd < Len(contents)

\* C2: a marker whose title is no outline section's title starts no entry and
\* ends no body, and its text is inside the document of the section whose span
\* contains it.
C2_UnexpectedMarkerIsNoDelimiter ==
    sectionIndex >= 1 =>
        \A p \in UnexpectedMarkers :
            /\ contentStart - Len(Anchor(LastMatched)) # p
            /\ contentEnd # p
            /\ (contentStart <= p /\ p < contentEnd) =>
                   \E k \in 1..Len(files) :
                       Contains(files[k].text,
                                PagePrefix \o MarkerTitleAt(p))

\* C3: while the loop runs nothing is thrown and the keys of the output are
\* the file names of the first sectionIndex sections in outline order; an
\* iteration whose anchor is not found at or after the cursor returns at once
\* and adds no entry, and an iteration whose anchor is found adds the entry of
\* that section and moves to the next one.
C3_StopsAtFirstMissingAnchor ==
    /\ [](pc \in {"split_loop", "split_returned"} =>
            /\ thrown = <<>>
            /\ sectionIndex <= Len(structure.sections)
            /\ Keys(files) = FirstOccurrences(PrefixNames(sectionIndex)))
    /\ [][InLoop =>
            IF OccursFrom(contents, Anchor(sectionIndex), currentPos)
            THEN sectionIndex' = sectionIndex + 1
                 /\ \E k \in 1..Len(files') :
                        files'[k].name = PrefixNames(sectionIndex')[sectionIndex']
            ELSE pc' = "split_returned" /\ files' = files
                 /\ sectionIndex' = sectionIndex /\ thrown' = <<>>]_vars

\* the scan has stopped at a missing anchor after at least one match, and the
\* output has fewer entries than the outline has sections
C3_Witness ==
    /\ pc = "split_returned"
    /\ sectionIndex >= 1
    /\ markerPos = -1
    /\ Len(files) = sectionIndex
    /\ Len(files) < Len(structure.sections)

\* C4 (as stated): every content that does not start with "# Page: " raises
\* InvalidContent, and every content that starts with it raises
\* InvalidStructure when the outline is empty.
C4_ErrorsForEveryContent ==
    pc # "split" =>
        /\ ~OccursAt(contents, PagePrefix, 0) =>
               /\ pc = "split_thrown"
               /\ StartsWith(thrown, InvalidContentPrefix)
        /\ (OccursAt(contents, PagePrefix, 0) /\ structure.sections = <<>>) =>
               /\ pc = "split_thrown"
               /\ StartsWith(thrown, InvalidStructurePrefix)

\* C4 (amended): every content that is not empty or whitespace-only and does
\* not start with "# Page: " raises InvalidContent, whatever the outline is,
\* and every content that starts with "# Page: " raises InvalidStructure when
\* the outline has no sections; both messages end with the trimmed content.
C4_ErrorsForNonBlankContent ==
    pc # "split" =>
        /\ (~Blank(contents) /\ ~OccursAt(contents, PagePrefix, 0)) =>
               /\ pc = "split_thrown"
               /\ StartsWith(thrown, InvalidContentPrefix)
               /\ IsTrimOf(SubSeq(thrown, Len(InvalidContentPrefix) + 1, Len(thrown)),
                           contents, 0, Len(contents))
        /\ (OccursAt(contents, PagePrefix, 0) /\ structure.sections = <<>>) =>
               /\ pc = "split_thrown"
               /\ StartsWith(thrown, InvalidStructurePrefix)
               /\ IsTrimOf(SubSeq(thrown, Len(InvalidStructurePrefix) + 1, Len(thrown)),
                           contents, 0, Len(contents))

\* InvalidContent has been raised for an empty outline
C4_Witness ==
    /\ pc = "split_thrown"
    /\ StartsWith(thrown, InvalidContentPrefix)
    /\ structure.sections = <<>>
    /\ Len(thrown) > Len(InvalidContentPrefix)

\* C5: for an empty or whitespace-only content the function returns the empty
\* map and throws nothing, whatever the outline is.
C5_BlankContentGivesEmptyMap ==
    (pc # "split" /\ Blank(contents)) =>
        /\ pc = "split_returned"
        /\ files = <<>>
        /\ thrown = <<>>

\* a whitespace-only content has returned the empty map for an empty outline
C5_Witness ==
    /\ pc = "split_returned"
    /\ contents # <<>>
    /\ Blank(contents)
    /\ structure.sections = <<>>
    /\ files = <<>>

\* C6: the section matched last has an entry whose key is its number, a space,
\* its title and ".md" with every forbidden character replaced by "-", and
\* whose text is "# ", its fullTitle, two line breaks and the content between
\* the end of its anchor and the body end with the whitespace at both ends
\* removed.
C6_EntryOfMatchedSection ==
    sectionIndex >= 1 =>
        LET sec == structure.sections[sectionIndex]
            heading == <<35, 32>> \o sec.fullTitle \o <<10, 10>>
        IN  /\ OccursAt(contents, Anchor(LastMatched),
                        contentStart - Len(Anchor(LastMatched)))
            /\ \E k \in 1..Len(files) :
                   /\ files[k].name = PrefixNames(sectionIndex)[sectionIndex]
                   /\ StartsWith(files[k].text, heading)
                   /\ IsTrimOf(SubSeq(files[k].text, Len(heading) + 1,
                                      Len(files[k].text)),
                               contents, contentStart, contentEnd)

\* a section whose title holds a forbidden character and whose anchor is
\* followed at once by the next anchor has an entry with an empty body
C6_Witness ==
    /\ sectionIndex >= 1
    /\ 58 \in {structure.sections[sectionIndex].title[i] :
                  i \in 1..Len(structure.sections[sectionIndex].title)}
    /\ contentStart = contentEnd
    /\ contentEnd < Len(contents)
    /\ \E k \in 1..Len(files) :
           files[k].text = <<35, 32>> \o structure.sections[sectionIndex].fullTitle
                               \o <<10, 10>>

(***************************************************************************)
(* Properties of replaceInvalidFilenameCharacters.                         *)
(***************************************************************************)
\* C7: sanitizing the sanitized name changes nothing, and the sanitized name
\* holds no forbidden character.
C7_SanitizeIdempotent ==
    /\ pc \in {"sanitize_again", "sanitize_done"} =>
           \A i \in 1..Len(sanitized) : ~Forbidden(sanitized[i])
    /\ pc = "sanitize_done" => resanitized = sanitized

\* a name with two forbidden characters has been sanitized twice
C7_Witness ==
    /\ pc = "sanitize_done"
    /\ Len(filename) = 2
    /\ Forbidden(filename[1]) /\ Forbidden(filename[2])
    /\ resanitized = sanitized
    /\ sanitized # filename

\* C8: the result has the length of the input, "-" at exactly the positions
\* of the forbidden characters and the input's character everywhere else.
C8_SanitizePositionwise ==
    pc \in {"sanitize_again", "sanitize_done"} =>
        /\ Len(sanitized) = Len(filename)
        /\ \A i \in 1..Len(filename) :
               sanitized[i] = IF Forbidden(filename[i]) THEN 45 ELSE filename[i]

\* U+001F followed by a space: the first is replaced, the second is kept
C8_Witness ==
    /\ pc = "sanitize_done"
    /\ filename = <<31, 32>>
    /\ sanitized = <<45, 32>>

(***************************************************************************)
(* Properties of parseWikiStructure.                                       *)
(***************************************************************************)
\* the number of characters of line, from the 0-based position from on, that
\* are in S without a break
RECURSIVE RunLen(_, _, _)
RunLen(line, from, S) ==
    IF from < Len(line) /\ line[from + 1] \in S
    THEN 1 + RunLen(line, from + 1, S)
    ELSE 0

\* the line read from left to right: whitespace, "-", whitespace, the longest
\* run of digits and dots, whitespace, and a rest without line terminators;
\* a rest that is all whitespace needs two whitespace characters after the
\* number and gives the empty title
ShapeOf(line) ==
    LET indent == RunLen(line, 0, WhiteSpace)
        dash == indent < Len(line) /\ line[indent + 1] = 45
        gap1 == RunLen(line, indent + 1, WhiteSpace)
        numAt == indent + 1 + gap1
        num == RunLen(line, numAt, (48..57) \cup {46})
        gap2 == RunLen(line, numAt + num, WhiteSpace)
        restAt == numAt + num + gap2
        rest == SubSeq(line, restAt + 1, Len(line))
        plain(t) == \A k \in 1..Len(t) : t[k] \notin {10, 13, 8232, 8233}
    IN  [matched |-> /\ dash /\ gap1 >= 1 /\ num >= 1 /\ gap2 >= 1
                     /\ IF rest # <<>> THEN plain(rest)
                        ELSE gap2 >= 2 /\ plain(<<line[Len(line)]>>),
         number |-> SubSeq(line, numAt + 1, numAt + num),
         rest |-> rest]

\* the lines of a text: what stands between its line breaks
TextLines(text) ==
    LET breaks == {k \in 1..Len(text) : text[k] = 10}
        before(k) == IF k = 1 THEN 0
                     ELSE CHOOSE b \in breaks :
                              Cardinality({x \in breaks : x < b}) = k - 2
        after(k) == IF k = Cardinality(breaks) + 1 THEN Len(text) + 1
                    ELSE CHOOSE b \in breaks :
                             Cardinality({x \in breaks : x < b}) = k - 1
    IN  [k \in 1..(Cardinality(breaks) + 1) |->
            SubSeq(text, before(k) + 1, after(k) - 1)]

\* one section for every line of ls that has the shape, in the order of ls
RECURSIVE SectionsOfLines(_)
SectionsOfLines(ls) ==
    IF ls = <<>> THEN <<>>
    ELSE LET front == SectionsOfLines(SubSeq(ls, 1, Len(ls) - 1))
             shape == ShapeOf(ls[Len(ls)])
         IN  IF ~shape.matched THEN front
             ELSE Append(front, shape)

\* one or more groups of digits separated by single dots
WellFormedNumber(n) ==
    /\ n # <<>>
    /\ \A i \in 1..Len(n) : n[i] \in (48..57) \cup {46}
    /\ n[1] # 46
    /\ n[Len(n)] # 46
    /\ \A i \in 1..(Len(n) - 1) : ~(n[i] = 46 /\ n[i + 1] = 46)

\* C9: every Section.number returned is a well-formed dotted number: one or
\* more groups of decimal digits separated by single dots.
C9_NumbersWellFormed ==
    pc = "parse_returned" =>
        \A k \in 1..Len(parsed.sections) :
            WellFormedNumber(parsed.sections[k].number)

\* C10: the sections pushed so far are, in order, one for every line read so
\* far that has the shape of the pattern, with the number as written, the
\* trimmed title and fullTitle = number, space, title; the value returned
\* holds them for all the lines, and rawText is the input.
C10_OneSectionPerMatchingLine ==
    pc \in {"parse_loop", "parse_returned"} =>
        LET expected == SectionsOfLines(
                            SubSeq(TextLines(structureText), 1, lineIndex))
        IN  /\ lineIndex <= Len(TextLines(structureText))
            /\ Len(sections) = Len(expected)
            /\ \A k \in 1..Len(sections) :
                   /\ sections[k].number = expected[k].number
                   /\ IsTrimOf(sections[k].title, expected[k].rest,
                               0, Len(expected[k].rest))
                   /\ sections[k].fullTitle =
                          sections[k].number \o <<32>> \o sections[k].title
            /\ pc = "parse_returned" =>
                   /\ lineIndex = Len(TextLines(structureText))
                   /\ parsed.sections = sections
                   /\ parsed.rawText = structureText

\* two sections have been returned in the order of their lines, the second
\* with its title trimmed, from a text with a line that is no outline line
C10_Witness ==
    /\ pc = "parse_returned"
    /\ Len(lines) = 3
    /\ Len(parsed.sections) = 2
    /\ parsed.sections[1].fullTitle = <<49, 32, 97>>
    /\ parsed.sections[2].title = <<98, 32, 99>>

(***************************************************************************)
(* Properties of the scan of splitWikiContents.                            *)
(***************************************************************************)
\* C15: the cursor never moves backwards and never leaves the content; every
\* iteration that stays in the loop adds one to the section index, which
\* never passes the number of sections; the anchor of the section matched in
\* an iteration starts at or after the cursor (the body end of the section
\* matched before it) and its body ends at or after its body start, so the
\* ranges [anchor start, body end) follow one another in outline order
\* without overlap.
C15_CursorMonotoneRangesDisjoint ==
    /\ [](pc \in {"split_loop", "split_returned"} =>
            /\ 0 <= currentPos /\ currentPos <= Len(contents)
            /\ 0 <= sectionIndex /\ sectionIndex <= Len(structure.sections)
            /\ sectionIndex >= 1 =>
                   /\ contentStart <= contentEnd
                   /\ contentEnd = currentPos)
    /\ [][pc = "split_loop" =>
            /\ currentPos' >= currentPos
            /\ IF pc' = "split_loop"
               THEN /\ sectionIndex' = sectionIndex + 1
                    /\ markerPos' >= currentPos
                    /\ sectionIndex >= 1 => markerPos' >= contentEnd
                    /\ markerPos' < contentStart'
                    /\ contentStart' <= contentEnd'
               ELSE sectionIndex' = sectionIndex /\ currentPos' = currentPos]_vars

\* three sections have been matched one after the other
C15_Witness ==
    /\ pc = "split_returned"
    /\ sectionIndex = 3
    /\ Len(files) = 3
    /\ markerPos > 0
    /\ currentPos = Len(contents)

\* section i has been matched, the anchor of section i+1 does not occur at or
\* after its body start and the anchor of a later section does
SkippedAhead ==
    /\ pc = "split_loop"
    /\ sectionIndex >= 1
    /\ sectionIndex < Len(structure.sections)
    /\ ~OccursFrom(contents, Anchor(sectionIndex), contentStart)
    /\ LaterFound # {}

\* C16: when section i is matched, the anchor of section i+1 does not occur at
\* or after the body start of section i and the anchor of a later section
\* does, the body of section i is cut at the anchor of the first such section
\* j of the outline, the cursor stands at that anchor, and the next step
\* returns without a new entry: the output keeps the entries of sections 0..i
\* and no body reaches the text from the anchor of section j on.
C16_CutAtLaterAnchorThenStop ==
    /\ [](SkippedAhead =>
            LET j == MinOf(LaterFound)
            IN  /\ j > sectionIndex
                /\ OccursAt(contents, Anchor(j), contentEnd)
                /\ \A p \in contentStart..(contentEnd - 1) :
                       ~OccursAt(contents, Anchor(j), p)
                /\ currentPos = contentEnd
                /\ currentPos < Len(contents)
                /\ Keys(files) = FirstOccurrences(PrefixNames(sectionIndex)))
    /\ [][SkippedAhead =>
            /\ pc' = "split_returned"
            /\ files' = files
            /\ sectionIndex' = sectionIndex
            /\ currentPos' = currentPos
            /\ thrown' = <<>>]_vars

\* the scan has stopped at section i+1 although a later section's anchor
\* stands at the cursor, with text left after it
C16_Witness ==
    /\ pc = "split_returned"
    /\ sectionIndex >= 1
    /\ sectionIndex + 1 < Len(structure.sections)
    /\ markerPos = -1
    /\ ~OccursFrom(contents, Anchor(sectionIndex), contentStart)
    /\ \E j \in (sectionIndex + 1)..(Len(structure.sections) - 1) :
           OccursAt(contents, Anchor(j), currentPos)
    /\ currentPos = contentEnd
    /\ Len(files) = sectionIndex
    /\ Len(files) < Len(structure.sections) - 1

(***************************************************************************)
(* Properties of downloadWiki and of the command line.                     *)
(***************************************************************************)
\* the positions of an event in the log of the run
At(e) == {i \in 1..Len(events) : events[i] = e}

Happened(e) == At(e) # {}

\* every occurrence of a comes before every occurrence of b
Before(a, b) == \A i \in At(a), j \in At(b) : i < j

\* b has happened only if a has
Needs(b, a) == Happened(b) => Happened(a)

\* downloadWiki has been left, by return or by throw, or the process is over
LeftDownload == pc \in {"dw_resolved", "dw_rejected", "exited"}

\* the entry of the outline dump among the files written
StructureDump == [name |-> StructureFileName, text |-> structureText]

\* C11: when splitWikiContents throws, no section document has been written
\* and none is written later in the run, the outline dump written before is
\* the one file on disk; a section document is written only after the split
\* has returned
C11_NoSectionFileAfterFailedSplit ==
    /\ [](thrown # <<>> =>
              /\ written = <<StructureDump>>
              /\ ~Happened("write:section")
              /\ ~Happened("split"))
    /\ [](Needs("write:section", "split") /\ Before("split", "write:section"))
    /\ [][thrown' # <<>> => written' = written]_vars

C11_Witness ==
    /\ pc = "exited"
    /\ thrown # <<>>
    /\ StartsWith(thrown, InvalidStructurePrefix)
    /\ written = <<StructureDump>>
    /\ exitCode = 1

\* C12: every key of the Map returned by splitWikiContents for an outline
\* made by parseWikiStructure begins with a decimal digit and is not the name
\* of the outline dump
C12_KeysBeginWithDigit ==
    \A i \in 1..Len(files) :
        /\ files[i].name[1] \in 48..57
        /\ files[i].name # StructureFileName

\* the part of C12 about the dump name alone: no key begins with "_"
C12_NoKeyIsDumpName ==
    \A i \in 1..Len(files) :
        /\ files[i].name[1] # 95
        /\ files[i].name # StructureFileName

\* owner/repo: one "/", with text on both sides of it
IsOwnerRepo(name) ==
    /\ Len(name) >= 3
    /\ Cardinality({k \in 1..Len(name) : name[k] = 47}) = 1
    /\ name[1] # 47
    /\ name[Len(name)] # 47

HelpAsked == Len(args) > 0 /\ args[1] \in HelpFlags

NoValidRepo == Len(args) = 0 \/ (~HelpAsked /\ ~IsOwnerRepo(args[1]))

\* C13: with a help flag first the usage is printed and the status is 0; with
\* no first argument, or one that is no owner/repo identifier, the usage is
\* printed, the status is 1 and downloadWiki is never called
C13_UsageForHelpOrInvalid ==
    /\ HelpAsked => (pc = "cli" \/ (pc = "exited" /\ events = <<"usage">> /\ exitCode = 0))
    /\ NoValidRepo => (pc = "cli" \/ (pc = "exited" /\ events = <<"usage">> /\ exitCode = 1))

\* C14: the steps of downloadWiki happen in the order of the source, each
\* remote call is issued at most once, the two are never in flight together,
\* and after a failed outline call the content call is not issued
C14_StepsInOrderNoRetry ==
    /\ \A e \in {"connect", "call:read_wiki_structure", "result:read_wiki_structure",
                 "write:structure", "parse", "call:read_wiki_contents",
                 "result:read_wiki_contents", "split", "throw:split", "close"} :
           Cardinality(At(e)) <= 1
    /\ Needs("result:read_wiki_structure", "call:read_wiki_structure")
    /\ Before("call:read_wiki_structure", "result:read_wiki_structure")
    /\ Needs("write:structure", "result:read_wiki_structure")
    /\ Before("result:read_wiki_structure", "write:structure")
    /\ Needs("parse", "write:structure")
    /\ Before("write:structure", "parse")
    /\ Needs("call:read_wiki_contents", "parse")
    /\ Before("parse", "call:read_wiki_contents")
    /\ Needs("result:read_wiki_contents", "call:read_wiki_contents")
    /\ Before("call:read_wiki_contents", "result:read_wiki_contents")
    /\ \A s \in {"split", "throw:split"} :
           /\ Needs(s, "result:read_wiki_contents")
           /\ Before("result:read_wiki_contents", s)
    /\ Needs("write:section", "split")
    /\ Before("split", "write:section")
    /\ ~({"read_wiki_structure", "read_wiki_contents"} \subseteq inFlight)
    /\ Cardinality(inFlight) <= 1
    /\ "read_wiki_contents" \in inFlight => Happened("result:read_wiki_structure")
    /\ Happened("reject:read_wiki_structure") => ~Happened("call:read_wiki_contents")

C14_Witness ==
    /\ pc = "exited"
    /\ Happened("complete")
    /\ Cardinality(At("write:section")) = 2
    /\ Len(written) = 3

\* C17: once client.connect has been called, the client has been closed
\* exactly once when downloadWiki is left, and not before the try block is
\* over; a failure in the try block leaves downloadWiki by a throw, after the
\* close, and the process ends with status 1
C17_ClosedOnceFailurePropagated ==
    /\ [](Happened("connect") =>
              /\ LeftDownload => Cardinality(At("close")) = 1
              /\ ~LeftDownload => ~Happened("close")
              /\ pc = "dw_resolved" => dwError = "none"
              /\ pc = "exited" => (exitCode = 0 <=> dwError = "none"))
    /\ [](~Happened("connect") => ~Happened("close"))
    /\ [][pc = "dw_finally" /\ dwError # "none" =>
              /\ pc' = "dw_rejected"
              /\ events' = Append(events, "close")
              /\ dwError' # "none"]_vars

C17_Witness ==
    /\ pc = "exited"
    /\ dwError = "write:section"
    /\ Cardinality(At("close")) = 1
    /\ Len(written) = 2
    /\ exitCode = 1
    /\ events[Len(events)] = "error"
    /\ events[Len(events) - 1] = "close"

====
